---- MODULE Spec2Model ----
(***************************************************************************)
(* Model of gocw (chinesewhispers.go): the Chinese Whispers graph          *)
(* clustering of a weighted edge list.                                     *)
(*                                                                         *)
(* Node indices and positions in the edge sequence are 0-based as in the   *)
(* source: labels and neighbours are functions on 0..n-1, and position p   *)
(* of c.edges is edges[p+1].  Distances are small positive integers; the   *)
(* code only adds and compares them.  rand.Int63() is a free choice of the *)
(* sampled node, and the iteration order of the Go map labelsToCounts is   *)
(* a free choice among the labels that can come out of the range loop.     *)
(*                                                                         *)
(* Two executions of the propagation loop are carried side by side         *)
(* (labels/ret and labelsB/retB): they read the same edges, the same       *)
(* numIterations and the same sampled nodes, and differ only in the order  *)
(* in which the runtime iterates the tally map.                            *)
(***************************************************************************)
EXTENDS Integers, Sequences, FiniteSets, TLC

\* Bounds of the model.
MaxNode == 2
MaxEdges == 2
MaxIter == 1
MaxWeight == 2

VARIABLES
    numIterations,  \* c.numIterations
    edges,          \* c.edges
    labels,         \* c.labels
    labelsB,        \* c.labels in the second execution
    neighbours,     \* Run's local neighbours
    i,              \* Run's propagation loop counter
    idx,            \* the node sampled by the latest propagation step
    sampled,        \* the nodes sampled so far by the latest Run
    raw,            \* c.labels as the propagation loop left them
    ret,            \* the value returned by the latest Run
    retB,           \* the value returned by the second execution
    pc              \* "idle", "propagate" (inside Run's loop), "done" (Run returned)

vars == <<numIterations, edges, labels, labelsB, neighbours, i, idx, sampled, raw, ret, retB, pc>>

Nodes == 0..MaxNode
Weights == 1..MaxWeight
Pair == [Idx1 : Nodes, Idx2 : Nodes, Distance : Weights]

Range(f) == {f[x] : x \in DOMAIN f}

\* Edges.Less on two pairs.
Less(a, b) == a.Idx1 < b.Idx1 \/ (a.Idx1 = b.Idx1 /\ a.Idx2 < b.Idx2)

\* sort.IsSorted(c.edges): no element is Less than its predecessor.
IsSorted(e) == \A p \in 2..Len(e) : ~Less(e[p], e[p-1])

\* The local buffer ensureOrdered fills: make(Edges, 2*len) zero pairs, then
\* each edge followed by its mirror unless it is a self edge.
RECURSIVE appendMirrored(_, _, _)
appendMirrored(e, p, acc) ==
    IF p > Len(e) THEN acc
    ELSE LET fwd == Append(acc, [Idx1 |-> e[p].Idx1, Idx2 |-> e[p].Idx2, Distance |-> e[p].Distance])
             both == IF e[p].Idx1 # e[p].Idx2
                     THEN Append(fwd, [Idx1 |-> e[p].Idx2, Idx2 |-> e[p].Idx1, Distance |-> e[p].Distance])
                     ELSE fwd
         IN appendMirrored(e, p + 1, both)

ordered(e) ==
    appendMirrored(e, 1, [p \in 1..(2 * Len(e)) |-> [Idx1 |-> 0, Idx2 |-> 0, Distance |-> 0]])

\* c.edges after ensureOrdered: the sorted buffer is a local that is dropped
\* on return, so the receiver's edges are what they were.
ensureOrdered(e) ==
    IF IsSorted(e) THEN e
    ELSE LET buffer == ordered(e) IN e

\* The closure numNodes of findNeighbourRanges.
RECURSIVE maxIdxFrom(_, _, _)
maxIdxFrom(e, p, maxIdx) ==
    IF p > Len(e) THEN maxIdx
    ELSE LET m1 == IF e[p].Idx1 > maxIdx THEN e[p].Idx1 ELSE maxIdx
             m2 == IF e[p].Idx2 > m1 THEN e[p].Idx2 ELSE m1
         IN maxIdxFrom(e, p + 1, m2)

\* The node count without the + 1.
numNodesMaxIdx(e) == IF Len(e) = 0 THEN 0 ELSE maxIdxFrom(e, 1, 0)

numNodes(e) == IF Len(e) = 0 THEN 0 ELSE maxIdxFrom(e, 1, 0) + 1

\* The range walk of findNeighbourRanges from 0-based position n on.
RECURSIVE rangeWalk(_, _, _, _, _)
rangeWalk(e, n, nb, curNode, startIdx) ==
    IF n = Len(e)
    THEN IF DOMAIN nb # {} THEN [nb EXCEPT ![curNode] = <<startIdx, Len(e)>>] ELSE nb
    ELSE IF e[n + 1].Idx1 # curNode
         THEN rangeWalk(e, n + 1, [nb EXCEPT ![curNode] = <<startIdx, n>>], e[n + 1].Idx1, n)
         ELSE rangeWalk(e, n + 1, nb, curNode, startIdx)

findNeighbourRanges(e) ==
    rangeWalk(e, 0, [n \in 0..(numNodes(e) - 1) |-> <<0, 0>>], 0, 0)

\* Each node gets a different label.
initLabels(nb) == [n \in DOMAIN nb |-> n]

\* The loop bound without the factor len(neighbours).
totalStepsPerRun(nb, iters) == iters

\* The loop bound with the comparison written <= instead of <.
totalStepsInclusive(nb, iters) == Cardinality(DOMAIN nb) * iters + 1

\* The bound of the propagation loop.
totalSteps(nb, iters) == Cardinality(DOMAIN nb) * iters

\* The weight accumulated under label k over the positions from..end-1.
RECURSIVE weightOf(_, _, _, _, _)
weightOf(e, lab, k, from, end) ==
    IF from >= end THEN 0
    ELSE (IF lab[e[from + 1].Idx2] = k THEN e[from + 1].Distance ELSE 0)
         + weightOf(e, lab, k, from + 1, end)

\* The tally keyed by the label of the edge's own end, Idx1, instead of Idx2.
labelsToCountsOwnEnd(e, nb, lab, node) ==
    LET start == nb[node][1]
        end == nb[node][2]
        swapped == [p \in DOMAIN e |->
                       [Idx1 |-> e[p].Idx2, Idx2 |-> e[p].Idx1, Distance |-> e[p].Distance]]
        keys == {lab[swapped[n + 1].Idx2] : n \in start..(end - 1)}
    IN [k \in keys |-> weightOf(swapped, lab, k, start, end)]

\* The map labelsToCounts built for the sampled node.
labelsToCounts(e, nb, lab, node) ==
    LET start == nb[node][1]
        end == nb[node][2]
        keys == {lab[e[n + 1].Idx2] : n \in start..(end - 1)}
    IN [k \in keys |-> weightOf(e, lab, k, start, end)]

\* bestLabel declared without its initial value c.labels[idx]: the zero value.
bestLabelsZeroDefault(counts, own) ==
    IF DOMAIN counts = {} THEN {0}
    ELSE {k \in DOMAIN counts : \A j \in DOMAIN counts : counts[j] <= counts[k]}

\* The comparison of the range loop turned around: the least count wins.
bestLabelsLeast(counts, own) ==
    IF DOMAIN counts = {} THEN {own}
    ELSE {k \in DOMAIN counts : \A j \in DOMAIN counts : counts[k] <= counts[j]}

\* The values bestLabel can hold after the range loop over the map: own when
\* the map is empty; otherwise the first key of maximal count in the
\* iteration order, and the order is the runtime's choice.  Every count is a
\* finite sum and so exceeds the initial bestScore, -Inf.
bestLabels(counts, own) ==
    IF DOMAIN counts = {} THEN {own}
    ELSE {k \in DOMAIN counts : \A j \in DOMAIN counts : counts[j] <= counts[k]}

\* The map labelRemap after the first compaction loop, from 0-based node n
\* on: every node stores len(labelRemap) under its label.
RECURSIVE remapFrom(_, _, _)
remapFrom(lab, n, m) ==
    IF n \notin DOMAIN lab THEN m
    ELSE LET nextIdx == Cardinality(DOMAIN m)
         IN remapFrom(lab, n + 1,
                [k \in DOMAIN m \cup {lab[n]} |-> IF k = lab[n] THEN nextIdx ELSE m[k]])

labelRemap(lab) == remapFrom(lab, 0, [k \in {} |-> 0])

\* The second compaction loop.
applyRemap(lab) == [n \in DOMAIN lab |-> labelRemap(lab)[lab[n]]]

\* The result taken from the last nextIdx instead of len(labelRemap).
numLabelsOffByOne(lab) == Cardinality(DOMAIN labelRemap(lab)) - 1

\* Run's result after compaction.
numLabels(lab) == Cardinality(DOMAIN labelRemap(lab))

\* One cluster reported for the graph without nodes.
runOnNoEdgesOneCluster == [labels |-> <<>>, result |-> 1]

\* The outcome of Run when there is no edge: the labels are reset to the
\* empty slice and the result is 0.
runOnNoEdges == [labels |-> <<>>, result |-> 0]

TypeOK ==
    /\ numIterations \in 0..MaxIter
    /\ edges \in Seq([Idx1 : Nodes, Idx2 : Nodes, Distance : Nat])
    /\ pc \in {"idle", "propagate", "done"}

Init ==
    /\ numIterations \in 0..MaxIter
    /\ edges = <<>>
    /\ labels = <<>>
    /\ labelsB = <<>>
    /\ neighbours = <<>>
    /\ i = 0
    /\ idx = 0
    /\ sampled = {}
    /\ raw = <<>>
    /\ ret = 0
    /\ retB = 0
    /\ pc = "idle"

\* AddEdge(pair)
AddEdge(pair) ==
    /\ pc \in {"idle", "done"}
    /\ Len(edges) < MaxEdges
    /\ edges' = Append(edges, pair)
    /\ pc' = "idle"
    /\ UNCHANGED <<numIterations, labels, labelsB, neighbours, i, idx, sampled, raw, ret, retB>>

\* Run on an instance without edges: the early return.
RunEmpty ==
    /\ pc \in {"idle", "done"}
    /\ Len(ensureOrdered(edges)) = 0
    /\ edges' = ensureOrdered(edges)
    /\ labels' = runOnNoEdges.labels
    /\ labelsB' = runOnNoEdges.labels
    /\ raw' = <<>>
    /\ ret' = runOnNoEdges.result
    /\ retB' = runOnNoEdges.result
    /\ sampled' = {}
    /\ pc' = "done"
    /\ UNCHANGED <<numIterations, neighbours, i, idx>>

\* The start of Run with the labels of an earlier Run kept where they exist.
RunStartKeepsLabels ==
    /\ pc \in {"idle", "done"}
    /\ Len(ensureOrdered(edges)) # 0
    /\ edges' = ensureOrdered(edges)
    /\ neighbours' = findNeighbourRanges(edges')
    /\ labels' = [n \in DOMAIN neighbours' |-> IF n \in DOMAIN labels THEN labels[n] ELSE n]
    /\ labelsB' = [n \in DOMAIN neighbours' |-> IF n \in DOMAIN labelsB THEN labelsB[n] ELSE n]
    /\ i' = 0
    /\ idx' = 0
    /\ sampled' = {}
    /\ raw' = <<>>
    /\ pc' = "propagate"
    /\ UNCHANGED <<numIterations, ret, retB>>

\* Run up to the propagation loop: normalise, index, initialise the labels.
RunStart ==
    /\ pc \in {"idle", "done"}
    /\ Len(ensureOrdered(edges)) # 0
    /\ edges' = ensureOrdered(edges)
    /\ neighbours' = findNeighbourRanges(edges')
    /\ labels' = initLabels(neighbours')
    /\ labelsB' = initLabels(neighbours')
    /\ i' = 0
    /\ idx' = 0
    /\ sampled' = {}
    /\ raw' = <<>>
    /\ pc' = "propagate"
    /\ UNCHANGED <<numIterations, ret, retB>>

\* The step with the selected label also stored at the neighbours of the range.
StepPushesLabel(node) ==
    /\ pc = "propagate"
    /\ i < totalSteps(neighbours, numIterations)
    /\ node \in DOMAIN neighbours
    /\ LET targets == {node} \cup {edges[n + 1].Idx2 : n \in neighbours[node][1]..(neighbours[node][2] - 1)}
       IN /\ \E bestLabel \in bestLabels(labelsToCounts(edges, neighbours, labels, node), labels[node]) :
                 labels' = [m \in DOMAIN labels |-> IF m \in targets THEN bestLabel ELSE labels[m]]
          /\ \E bestLabel \in bestLabels(labelsToCounts(edges, neighbours, labelsB, node), labelsB[node]) :
                 labelsB' = [m \in DOMAIN labelsB |-> IF m \in targets THEN bestLabel ELSE labelsB[m]]
    /\ idx' = node
    /\ sampled' = sampled \cup {node}
    /\ i' = i + 1
    /\ UNCHANGED <<numIterations, edges, neighbours, raw, ret, retB, pc>>

\* One iteration of the propagation loop on the sampled node.
Step(node) ==
    /\ pc = "propagate"
    /\ i < totalSteps(neighbours, numIterations)
    /\ node \in DOMAIN neighbours
    /\ \E bestLabel \in bestLabels(labelsToCounts(edges, neighbours, labels, node), labels[node]) :
           labels' = [labels EXCEPT ![node] = bestLabel]
    /\ \E bestLabel \in bestLabels(labelsToCounts(edges, neighbours, labelsB, node), labelsB[node]) :
           labelsB' = [labelsB EXCEPT ![node] = bestLabel]
    /\ idx' = node
    /\ sampled' = sampled \cup {node}
    /\ i' = i + 1
    /\ UNCHANGED <<numIterations, edges, neighbours, raw, ret, retB, pc>>

\* The end of Run: compaction and return.
RunReturn ==
    /\ pc = "propagate"
    /\ ~(i < totalSteps(neighbours, numIterations))
    /\ raw' = labels
    /\ labels' = applyRemap(labels)
    /\ labelsB' = applyRemap(labelsB)
    /\ ret' = numLabels(labels)
    /\ retB' = numLabels(labelsB)
    /\ neighbours' = <<>>
    /\ i' = 0
    /\ idx' = 0
    /\ pc' = "done"
    /\ UNCHANGED <<numIterations, edges, sampled>>

Next ==
    \/ \E pair \in Pair : AddEdge(pair)
    \/ RunEmpty
    \/ RunStart
    \/ \E node \in Nodes : Step(node)
    \/ RunReturn

Spec == Init /\ [][Next]_vars

(***************************************************************************)
(* Properties                                                              *)
(***************************************************************************)

\* The node count of the stored edges: max endpoint index + 1.
NodeCount == numNodes(edges)

\* The first node carrying the value v in the array lab.
FirstOccurrence(lab, v) == CHOOSE n \in DOMAIN lab : lab[n] = v /\ \A m \in DOMAIN lab : lab[m] = v => n <= m

\* First-encounter canonical form of lab: each node gets the number of
\* distinct values that first occur before the first occurrence of its own.
Canonical(lab) ==
    [n \in DOMAIN lab |->
        Cardinality({v \in Range(lab) : FirstOccurrence(lab, v) < FirstOccurrence(lab, lab[n])})]

\* Node n is an endpoint of no stored edge.
Isolated(n) == \A p \in 1..Len(edges) : edges[p].Idx1 # n /\ edges[p].Idx2 # n

\* C1: after Run returns k, the set of values in the label array is exactly
\* {0, ..., k-1}.
C1_LabelContiguity == pc = "done" => Range(labels) = 0..(ret - 1)

\* C2: the value returned by Run is the number of distinct values in the
\* final label array, and nodes whose labels differed at the end of
\* propagation do not share a final label.
C2_ReturnCountsFinalLabels ==
    pc = "done" =>
        /\ ret = Cardinality(Range(labels))
        /\ \A m, n \in DOMAIN raw : raw[m] # raw[n] => labels[m] # labels[n]

\* C3: the final labels are the first-encounter canonical form of the labels
\* left by propagation.
C3_FirstEncounterCompaction == pc = "done" => labels = Canonical(raw)

\* C4: two executions with the same edges, numIterations and sampled nodes
\* end with the same label array and the same result, whatever the order in
\* which the tally map is iterated.
C4_Determinism == pc = "done" => labels = labelsB /\ ret = retB

\* C5: once Run has normalised, every non-self edge (u,v,w) of the edge
\* sequence has its mirror (v,u,w) in the sequence.
C5_SymmetricAfterNormalization ==
    pc \in {"propagate", "done"} =>
        \A p \in 1..Len(edges) :
            edges[p].Idx1 # edges[p].Idx2 =>
                \E q \in 1..Len(edges) :
                    /\ edges[q].Idx1 = edges[p].Idx2
                    /\ edges[q].Idx2 = edges[p].Idx1
                    /\ edges[q].Distance = edges[p].Distance

\* C6: Run returns k with 1 <= k <= numNodes when there are nodes, and 0
\* when there are none.
C6_ClusterCountBound ==
    pc = "done" =>
        IF NodeCount > 0 THEN 1 <= ret /\ ret <= NodeCount ELSE ret = 0

C6_Witness ==
    /\ pc = "done"
    /\ NodeCount = 3
    /\ ret = 1
    /\ Cardinality(Range(raw)) = 1

\* C7: with numIterations = 0 and at least one edge, no label changes during
\* propagation, Run returns numNodes and all final labels are pairwise
\* different.
C7_ZeroIterations ==
    (numIterations = 0 /\ Len(edges) # 0) =>
        /\ pc = "propagate" => labels = [n \in 0..(NodeCount - 1) |-> n]
        /\ pc = "done" =>
              /\ raw = [n \in 0..(NodeCount - 1) |-> n]
              /\ ret = NodeCount
              /\ DOMAIN labels = 0..(NodeCount - 1)
              /\ \A m, n \in DOMAIN labels : m # n => labels[m] # labels[n]

C7_Witness ==
    /\ pc = "done"
    /\ numIterations = 0
    /\ edges = <<[Idx1 |-> 0, Idx2 |-> 1, Distance |-> 1]>>
    /\ ret = 2
    /\ labels[0] # labels[1]

\* C8: without edges Run takes no propagation step, returns 0 and leaves the
\* label array empty, for any numIterations.
C8_EmptyGraph ==
    Len(edges) = 0 =>
        /\ pc # "propagate"
        /\ pc = "done" => ret = 0 /\ labels = <<>>

C8_Witness ==
    /\ pc = "done"
    /\ Len(edges) = 0
    /\ numIterations > 0
    /\ ret = 0
    /\ labels = <<>>

\* C9: in every state of the propagation loop a node that is an endpoint of
\* no stored edge carries its initial label.
C9_IsolatedNodeStability ==
    pc = "propagate" =>
        \A n \in 0..(NodeCount - 1) : Isolated(n) => labels[n] = n

C9_Witness ==
    /\ pc = "propagate"
    /\ i > 1
    /\ idx \in 1..(NodeCount - 1)
    /\ Isolated(idx)
    /\ labels[idx] = idx
    /\ \E n \in DOMAIN labels : labels[n] # n

\* C10: compaction of an array already in first-encounter canonical form
\* returns the same array and the same number of labels.
C10_IdempotentCompaction ==
    (pc = "done" /\ raw = Canonical(raw)) =>
        labels = raw /\ ret = Cardinality(Range(raw))

\* C11: the edge sequence that the index build and the propagation loop read
\* is sorted ascending by (from, to), whatever the order of the AddEdge calls.
C11_NormalizedEdgesSorted ==
    pc \in {"propagate", "done"} =>
        \A p \in 1..Len(edges) : \A q \in (p + 1)..Len(edges) :
            \/ edges[p].Idx1 < edges[q].Idx1
            \/ (edges[p].Idx1 = edges[q].Idx1 /\ edges[p].Idx2 <= edges[q].Idx2)

(***************************************************************************)
(* Instances that already hold a list of MaxEdges + 1 edges of distance 1  *)
(* when Run is called: the shortest lists in which the edges of one node   *)
(* can be separated by an edge of another node.                            *)
(***************************************************************************)
LongerLists == [1..(MaxEdges + 1) -> [Idx1 : Nodes, Idx2 : Nodes, Distance : {1}]]

InitLonger ==
    /\ numIterations \in 0..MaxIter
    /\ edges \in LongerLists
    /\ labels = <<>>
    /\ labelsB = <<>>
    /\ neighbours = <<>>
    /\ i = 0
    /\ idx = 0
    /\ sampled = {}
    /\ raw = <<>>
    /\ ret = 0
    /\ retB = 0
    /\ pc = "idle"

NextRun ==
    \/ RunStart
    \/ \E node \in Nodes : Step(node)
    \/ RunReturn

SpecLonger == InitLonger /\ [][NextRun]_vars

\* The 0-based positions of the edge sequence that lie in the range of node n.
PositionsInRange(n) ==
    {p \in 0..(Len(edges) - 1) : neighbours[n][1] <= p /\ p < neighbours[n][2]}

\* C12: the ranges built by Run are pairwise disjoint, cover every position
\* of the edge sequence, and the range of node n holds exactly the positions
\* whose edge has from = n.
C12_RangesPartitionEdges ==
    pc = "propagate" =>
        /\ \A m, n \in DOMAIN neighbours :
               m # n => PositionsInRange(m) \cap PositionsInRange(n) = {}
        /\ \A p \in 0..(Len(edges) - 1) :
               \E n \in DOMAIN neighbours : p \in PositionsInRange(n)
        /\ \A n \in DOMAIN neighbours :
               PositionsInRange(n) = {p \in 0..(Len(edges) - 1) : edges[p + 1].Idx1 = n}

\* The sum of the distances of the edges at the 0-based positions P.
RECURSIVE SumDistances(_)
SumDistances(P) ==
    IF P = {} THEN 0
    ELSE LET p == CHOOSE q \in P : TRUE
         IN edges[p + 1].Distance + SumDistances(P \ {p})

\* The weight that the edges in the range of node n give to label k when the
\* labels are lab.
AccumulatedWeight(lab, n, k) ==
    SumDistances({p \in PositionsInRange(n) : lab[edges[p + 1].Idx2] = k})

\* The labels carried by the neighbours in the range of node n.
TallyLabels(lab, n) == {lab[edges[p + 1].Idx2] : p \in PositionsInRange(n)}

\* A propagation step is taken.
StepTaken == pc = "propagate" /\ pc' = "propagate" /\ i' = i + 1

FairSpec ==
    /\ Spec
    /\ WF_vars(\E node \in Nodes : Step(node))
    /\ WF_vars(RunReturn)

\* C14: Run terminates, and when it leaves the propagation loop the loop has
\* executed exactly numNodes * numIterations steps, whichever nodes were
\* sampled.
C14_RunTerminatesAfterFixedSteps ==
    /\ [][(pc = "propagate" /\ pc' = "done") => i = NodeCount * numIterations]_vars
    /\ [][StepTaken => i < NodeCount * numIterations]_vars
    /\ (pc = "propagate") ~> (pc = "done")

C14_Witness ==
    /\ pc = "propagate"
    /\ NodeCount = 3
    /\ numIterations = 1
    /\ i = 3
    /\ labels = initLabels(neighbours)

\* C15: a propagation step on the sampled node changes at most that node's
\* label; the other labels, the edge sequence and the ranges stay as they are.
C15_StepFrame ==
    [][StepTaken =>
          /\ DOMAIN labels' = DOMAIN labels
          /\ \A m \in DOMAIN labels : m # idx' => labels'[m] = labels[m]
          /\ edges' = edges
          /\ neighbours' = neighbours]_vars

C15_Witness ==
    /\ pc = "propagate"
    /\ i = 1
    /\ labels[idx] # idx
    /\ \A m \in DOMAIN labels : m # idx => labels[m] = m
    /\ Cardinality(DOMAIN labels) = 3

\* C16: every Run enters its propagation loop with Labels[n] = n, one entry
\* per node of the current edge list, whatever an earlier Run left behind; the
\* loop and the compaction then read only the edges, the ranges built from
\* them and these labels, so the result is that of a first Run on the same
\* edges.  A Run without edges leaves no label.
C16_FreshRun ==
    /\ (pc = "propagate" /\ i = 0) =>
           /\ labels = [n \in 0..(NodeCount - 1) |-> n]
           /\ labelsB = [n \in 0..(NodeCount - 1) |-> n]
           /\ sampled = {}
    /\ (pc = "done" /\ Len(edges) = 0) => labels = <<>>

\* A second Run at its loop entry: the first Run returned 2 for two nodes,
\* and an AddEdge brought a third node before this Run.
C16_Witness ==
    /\ pc = "propagate"
    /\ i = 0
    /\ numIterations = 0
    /\ ret = 2
    /\ NodeCount = 3
    /\ labels = [n \in 0..2 |-> n]

(***************************************************************************)
(* The triangle scenario: an instance that holds the edges (0,1,5.0),      *)
(* (1,2,0.1), (0,2,0.1), added in this order.  Distances are in tenths.    *)
(***************************************************************************)
Triangle ==
    << [Idx1 |-> 0, Idx2 |-> 1, Distance |-> 50],
       [Idx1 |-> 1, Idx2 |-> 2, Distance |-> 1],
       [Idx1 |-> 0, Idx2 |-> 2, Distance |-> 1] >>

InitTriangle ==
    /\ numIterations \in 0..(MaxIter + 1)
    /\ edges = Triangle
    /\ labels = <<>>
    /\ labelsB = <<>>
    /\ neighbours = <<>>
    /\ i = 0
    /\ idx = 0
    /\ sampled = {}
    /\ raw = <<>>
    /\ ret = 0
    /\ retB = 0
    /\ pc = "idle"

SpecTriangle == InitTriangle /\ [][NextRun]_vars

\* C17: on the triangle with numIterations >= 1, a Run that has sampled each
\* of the three nodes at least once ends with one label on all three nodes
\* and returns 1.
C17_TriangleConverges ==
    (pc = "done" /\ edges = Triangle /\ numIterations >= 1 /\ sampled = {0, 1, 2}) =>
        /\ labels[0] = labels[1]
        /\ labels[1] = labels[2]
        /\ Cardinality(Range(raw)) = 1
        /\ ret = 1

C17_Witness ==
    /\ pc = "done"
    /\ edges = Triangle
    /\ numIterations = 1
    /\ sampled = {0, 1, 2}
    /\ raw = [n \in 0..2 |-> 2]
    /\ ret = 1

\* C18: a propagation step brings no label into use: the labels in use after
\* the step are among those in use before it.
C18_LabelsOnlyDieOut ==
    [][StepTaken => Range(labels') \subseteq Range(labels)]_vars

C18_Witness ==
    /\ pc = "propagate"
    /\ i > 0
    /\ Cardinality(DOMAIN labels) = 3
    /\ Cardinality(Range(labels)) = 1

\* The greatest endpoint index of the stored edges.
MaxEndpoint ==
    LET ends == {edges[p].Idx1 : p \in 1..Len(edges)} \cup {edges[p].Idx2 : p \in 1..Len(edges)}
    IN CHOOSE m \in ends : \A x \in ends : x <= m

\* C19: in the states of Run the label array has max endpoint + 1 entries,
\* every label is below that count, every range satisfies
\* start <= end <= number of edges, and the accesses neighbours[curNode],
\* edges[n] and Labels[edge.to] are within bounds.
C19_IndexSafety ==
    /\ pc = "propagate" =>
           /\ DOMAIN labels = 0..MaxEndpoint
           /\ DOMAIN neighbours = 0..MaxEndpoint
           /\ \A n \in DOMAIN labels : labels[n] \in 0..MaxEndpoint
           /\ \A n \in DOMAIN neighbours :
                  /\ 0 <= neighbours[n][1]
                  /\ neighbours[n][1] <= neighbours[n][2]
                  /\ neighbours[n][2] <= Len(edges)
                  /\ \A p \in neighbours[n][1]..(neighbours[n][2] - 1) :
                         p < Len(edges) /\ edges[p + 1].Idx2 \in DOMAIN labels
           /\ 0 \in DOMAIN neighbours
           /\ \A p \in 1..Len(edges) : edges[p].Idx1 \in DOMAIN neighbours
    /\ (pc = "done" /\ Len(edges) > 0) => DOMAIN labels = 0..MaxEndpoint

C19_Witness ==
    /\ pc = "propagate"
    /\ i > 0
    /\ ~IsSorted(edges)
    /\ MaxEndpoint = 2
    /\ \E n \in DOMAIN neighbours : neighbours[n][2] = Len(edges) /\ neighbours[n][1] > 0
    /\ labels[idx] # idx

====
